---- MODULE Spec2Model ----
(***************************************************************************)
(* Users, user-owned regions and the geocoding client of the REST API.     *)
(*                                                                         *)
(* The database is two collections (users, regions).  Every request is a   *)
(* handler that runs on the event loop: it suspends at every database      *)
(* call, so two handlers interleave between their database calls.  Calls   *)
(* to the geocoding provider read no shared state and are folded into the  *)
(* database step that follows them.                                        *)
(*                                                                         *)
(* The database connection manager (DbSpec), the API key service           *)
(* (ApiKeySpec) and the authentication middleware (AuthSpec) are state     *)
(* machines of their own over their own variables.                         *)
(***************************************************************************)
EXTENDS Integers, Sequences, FiniteSets, TLC

VARIABLES
    users,       \* users collection: _id -> document
    regions,     \* regions collection: _id -> document
    userSeq,     \* number of user _ids generated so far
    regionSeq,   \* number of region _ids generated so far
    proc,        \* per request slot: the handler's position and locals
    ops,         \* number of requests received so far
    deletedOk,   \* region ids for which deleteRegion has returned OK
    dbClass,     \* which Database class the connection manager is
    state,       \* Database.state
    timerPending,\* the timer of state.retryTimeout is still to fire
    connects,    \* mongoose.connect calls that have not settled
    closes,      \* connection.close calls that have not settled
    up,          \* the driver's connection is open
    dbLast,      \* the last step of the connection manager and what it returned
    ismaster,    \* the node the driver is connected to is the primary
    seeding,     \* what the seeding script has done
    closedFrom,  \* the status in which close() was last called, "none"
                 \* once initialize() has been called after it
    call,        \* a call of ApiKeyService: its arguments and its result
    authUsers,   \* the users as the authentication middleware finds them
    request,     \* the request in the authentication middleware
    pageCall,    \* a call of PaginationUtil.paginate: its arguments and its result
    geoCall,     \* a call of the GeoCoding client: its arguments and its result
    seeder,      \* createRegionsForUser of the seeder: its position and locals
    creation,    \* a call of DatabaseSeeder.create: its position and locals
    readyState   \* connection.readyState of the connection given to it

apiVars == <<users, regions, userSeq, regionSeq, proc, ops, deletedOk>>
dbVars == <<dbClass, state, timerPending, connects, closes, up, dbLast,
            ismaster, seeding, closedFrom>>

authVars == <<call, authUsers, request>>

seedVars == <<seeder, creation, readyState>>

utilVars == <<pageCall, geoCall, seedVars>>

vars == <<apiVars, dbVars, authVars, utilVars>>

-----------------------------------------------------------------------------
(* Bounds *)

MaxUsers == 1
MaxRegions == 2
MaxOps == 4
NumProcs == 2

Procs == 1..NumProcs
UserIds == 1..MaxUsers
RegionIds == 1..MaxRegions

-----------------------------------------------------------------------------
(* Optional request fields: <<>> is undefined, <<x>> is the value x *)

None == <<>>
Some(x) == <<x>>
IsSome(o) == Len(o) = 1
Val(o) == o[1]

-----------------------------------------------------------------------------
(* The external geocoding provider *)

\* The places the provider knows, in the order it lists them.
World ==
    << [formatted_address |-> "A", lat |-> 0, lng |-> 1],
       [formatted_address |-> "B", lat |-> 1, lng |-> 0],
       [formatted_address |-> "C", lat |-> 0, lng |-> 2] >>

\* Valid latitudes of the miniature globe; longitudes range further.
LatRange == 0..1
LngRange == 0..2

\* Free-text queries the provider resolves to a place whose formatted
\* address is spelled differently.
Alias(address) == IF address = "a" THEN "A" ELSE address

Abs(x) == IF x < 0 THEN -x ELSE x

\* client.geocode: the candidates for an address (empty: ZERO_RESULTS)
geocode(address) ==
    SelectSeq(World, LAMBDA pl : pl.formatted_address = Alias(address))

\* client.reverseGeocode: the candidates around a point (empty: the request
\* is invalid or there are ZERO_RESULTS)
reverseGeocode(lat, lng) ==
    IF lat \notin LatRange \/ lng \notin LngRange
    THEN << >>
    ELSE SelectSeq(World,
                   LAMBDA pl : Abs(pl.lat - lat) + Abs(pl.lng - lng) <= 1)

-----------------------------------------------------------------------------
(* GeoCoding client *)

\* The LatLng shapes the callers use
LatLngArray(a, b) == [kind |-> "array", v |-> <<a, b>>]
LatLngLiteral(lat, lng) == [kind |-> "literal", lat |-> lat, lng |-> lng]

LatLngString(s) == [kind |-> "string", s |-> s]
LatLngLiteralVerbose(latitude, longitude) ==
    [kind |-> "verbose", latitude |-> latitude, longitude |-> longitude]

\* a value no pattern of coerceCoordinates matches: null, an object without
\* one of its two fields or with a field that is not a number, an array
\* with an element that is not a number
NotLatLng(what) == [kind |-> "other", what |-> what]

DecimalDigits == <<"0", "1", "2", "3", "4", "5", "6", "7", "8", "9">>
IsDigit(ch) == \E i \in DOMAIN DecimalDigits : DecimalDigits[i] = ch
DigitValue(ch) == (CHOOSE i \in DOMAIN DecimalDigits : DecimalDigits[i] = ch) - 1

\* String.prototype.indexOf(","), counted from 1, 0 when there is none
indexOfComma(str) ==
    IF \A i \in DOMAIN str : str[i] # "," THEN 0
    ELSE CHOOSE i \in DOMAIN str :
             str[i] = "," /\ \A k \in 1..(i - 1) : str[k] # ","

\* String.prototype.split(","), the first comma being at index i
RECURSIVE splitAt(_, _)
splitAt(str, i) ==
    IF i = 0 THEN << str >>
    ELSE LET rest == SubSeq(str, i + 1, Len(str))
         IN  << SubSeq(str, 1, i - 1) >> \o splitAt(rest, indexOfComma(rest))

split(str) == splitAt(str, indexOfComma(str))

RECURSIVE Decimal(_)
Decimal(str) ==
    IF str = << >> THEN 0
    ELSE 10 * Decimal(SubSeq(str, 1, Len(str) - 1)) + DigitValue(str[Len(str)])

\* Number(string): the empty string is 0, digits are their value, anything
\* else is NaN
Number(str) ==
    IF \A i \in DOMAIN str : IsDigit(str[i])
    THEN [nan |-> FALSE, n |-> Decimal(str)]
    ELSE [nan |-> TRUE, n |-> 0]

\* the result of coerceCoordinates: it threw, or the object it returned,
\* with the fields of it that are undefined
Coerced(latitude, longitude, undefined) ==
    [threw |-> FALSE, latitude |-> latitude, longitude |-> longitude,
     undefined |-> undefined]
CoerceThrew == [threw |-> TRUE, latitude |-> 0, longitude |-> 0, undefined |-> {}]

\* const [latitude, longitude] = list: an element the list does not have is
\* undefined, and Number.isNaN(undefined) is false
Destructured(list) ==
    Coerced(IF Len(list) >= 1 THEN list[1] ELSE 0,
            IF Len(list) >= 2 THEN list[2] ELSE 0,
            (IF Len(list) >= 1 THEN {} ELSE {"latitude"})
              \cup (IF Len(list) >= 2 THEN {} ELSE {"longitude"}))

\* coords.split(",").map(Number)
mapNumber(parts) == [i \in DOMAIN parts |-> Number(parts[i])]

\* the string branch from the destructuring of the numbers on
coerceNumbers(numbers) ==
    IF \E i \in DOMAIN numbers : i <= 2 /\ numbers[i].nan
    THEN CoerceThrew
    ELSE Destructured([i \in DOMAIN numbers |-> numbers[i].n])

coerceCoordinates(c) ==
    IF c.kind = "string" THEN coerceNumbers(mapNumber(split(c.s)))
    ELSE IF c.kind = "array" THEN Destructured(c.v)
    ELSE IF c.kind = "literal" THEN Coerced(c.lat, c.lng, {})
    ELSE IF c.kind = "verbose" THEN Coerced(c.latitude, c.longitude, {})
    ELSE CoerceThrew

Distance(pl, toMatch) ==
    Abs(pl.lat - coerceCoordinates(toMatch).latitude)
      + Abs(pl.lng - coerceCoordinates(toMatch).longitude)

\* insert pl after every element that is not farther than it (stable)
RECURSIVE InsertRanked(_, _, _)
InsertRanked(sorted, pl, toMatch) ==
    IF sorted = << >> THEN << pl >>
    ELSE IF Distance(Head(sorted), toMatch) <= Distance(pl, toMatch)
         THEN << Head(sorted) >> \o InsertRanked(Tail(sorted), pl, toMatch)
         ELSE << pl >> \o sorted

\* results.toSorted((current, next) => currentDistance - nextDistance)
RECURSIVE rankedResults(_, _)
rankedResults(results, toMatch) ==
    IF results = << >> THEN << >>
    ELSE InsertRanked(rankedResults(SubSeq(results, 1, Len(results) - 1), toMatch),
                      results[Len(results)], toMatch)

GeoFail == [ok |-> FALSE, formatted_address |-> "", lat |-> 0, lng |-> 0]
GeoOk(pl) == [ok |-> TRUE, formatted_address |-> pl.formatted_address,
              lat |-> pl.lat, lng |-> pl.lng]

\* results.find(...): the first element that satisfies Test
FirstMatch(results, Test(_)) ==
    LET hits == SelectSeq(results, Test) IN
    IF hits = << >> THEN GeoFail ELSE GeoOk(Head(hits))

findNearestLocationMatchString(results, toMatch) ==
    FirstMatch(results, LAMBDA pl : pl.formatted_address = toMatch)

findNearestLocationMatchLatLng(results, toMatch) ==
    LET exact == FirstMatch(results, LAMBDA pl : Distance(pl, toMatch) = 0)
        ranked == rankedResults(results, toMatch)
    IN  IF coerceCoordinates(toMatch).threw THEN GeoFail
        ELSE IF exact.ok THEN exact
        ELSE IF ranked = << >> THEN GeoFail
        ELSE GeoOk(ranked[Len(ranked)])

\* The provider reads a two-element array as "lat,lng".
getLocationFromCoordinates(coordinates) ==
    LET q == coerceCoordinates(coordinates)
        results == reverseGeocode(q.latitude, q.longitude)
    IN  IF results = << >> THEN GeoFail
        ELSE findNearestLocationMatchLatLng(results, coordinates)

getLocationFromAddress(address) ==
    LET results == geocode(address) IN
    IF results = << >> THEN GeoFail
    ELSE findNearestLocationMatchString(results, address)

-----------------------------------------------------------------------------
(* Request bodies and their validation schemas *)

Addresses == {"A", "C", "Z"}
CoordinateTuples == {<<1, 0>>, <<2, 0>>}

Opt(S) == {None} \cup {Some(x) : x \in S}

\* bodies of POST /users
CreateUserBodies ==
    [name : {Some("n1")}, address : Opt(Addresses),
     coordinates : Opt(CoordinateTuples)]

\* the update member of the bodies of PUT /users/:id
UpdateUserBodies ==
    [name : Opt({"n2"}), address : Opt(Addresses),
     coordinates : Opt(CoordinateTuples)]

\* CreateUserBodySchema: name is required; the refinement wants exactly one
\* of address and coordinates
CreateUserBodySchema(data) ==
    LET hasAddress == IsSome(data.address)
        hasCoordinates == IsSome(data.coordinates)
    IN  /\ IsSome(data.name)
        /\ IF hasAddress THEN ~hasCoordinates ELSE hasCoordinates

\* a refinement that only wants at least one of the two
UpdateUserBodySchemaAtLeastOne(data) ==
    IsSome(data.address) \/ IsSome(data.coordinates)

\* UpdateUserBodySchema: every field optional; the refinement wants exactly
\* one of address and coordinates
UpdateUserBodySchema(data) ==
    IsSome(data.address) # IsSome(data.coordinates)

-----------------------------------------------------------------------------
(* Handler slots *)

NoLoc == [name |-> None, address |-> None, coordinates |-> None,
          regions |-> << >>, v |-> 0, valid |-> TRUE]

EmptyBody == [name |-> None, address |-> None, coordinates |-> None]

Idle == [op |-> "idle", pc |-> "idle", uid |-> 0, rid |-> 0,
         body |-> EmptyBody, loc |-> NoLoc, res |-> "none", cause |-> "none"]

\* a handler that has returned or thrown
Done(op, uid, rid, body, loc, res, cause) ==
    [op |-> op, pc |-> "done", uid |-> uid, rid |-> rid,
     body |-> body, loc |-> loc, res |-> res, cause |-> cause]

\* a handler suspended at a database call
At(pc, op, uid, rid, body, loc) ==
    [op |-> op, pc |-> pc, uid |-> uid, rid |-> rid,
     body |-> body, loc |-> loc, res |-> "none", cause |-> "none"]

\* A handler runs to completion between two of its database calls, so the
\* step that ends a handler and the sending of its response are not
\* separated by a step of another handler.
NoResponsePending == \A q \in Procs : proc[q].pc # "done"

\* a request is taken by the first free slot
CanStart(p) ==
    /\ NoResponsePending
    /\ proc[p].pc = "idle"
    /\ \A q \in Procs : q < p => proc[q].pc # "idle"
    /\ ops < MaxOps

Resumes(p, pc) == NoResponsePending /\ proc[p].pc = pc

\* a handler's step touches nothing outside the API
Set(p, r) == proc' = [proc EXCEPT ![p] = r] /\ UNCHANGED <<dbVars, authVars, utilVars>>

-----------------------------------------------------------------------------
(* User model *)

UserDoc(name, address, coordinates) ==
    [name |-> name, address |-> address, coordinates |-> coordinates,
     regions |-> << >>, v |-> 0]

\* User pre-save hook, on the address and coordinates the document holds:
\* the stored tuple is [lng, lat] and is handed to the client as it is.
UserPreSave(address, coordinates, coordinatesModified, addressModified) ==
    IF coordinatesModified
    THEN LET r == getLocationFromCoordinates(
                      LatLngArray(coordinates[1], coordinates[2]))
         IN  [ok |-> r.ok, address |-> r.formatted_address,
              coordinates |-> coordinates]
    ELSE IF addressModified
    THEN LET r == getLocationFromAddress(address)
         IN  [ok |-> r.ok, address |-> address,
              coordinates |-> <<r.lng, r.lat>>]
    ELSE [ok |-> TRUE, address |-> address, coordinates |-> coordinates]

\* The handlers' own conversion before the document is built: the update
\* with the missing one of address and coordinates filled in.
ConvertLocation(update) ==
    IF IsSome(update.address) /\ ~IsSome(update.coordinates)
    THEN LET r == getLocationFromAddress(Val(update.address))
         IN  [ok |-> r.ok, address |-> update.address,
              coordinates |-> Some(<<r.lng, r.lat>>)]
    ELSE IF IsSome(update.coordinates) /\ ~IsSome(update.address)
    THEN LET c == Val(update.coordinates)
             r == getLocationFromCoordinates(LatLngLiteral(c[2], c[1]))
         IN  [ok |-> r.ok, address |-> Some(r.formatted_address),
              coordinates |-> update.coordinates]
    ELSE [ok |-> TRUE, address |-> update.address,
          coordinates |-> update.coordinates]

Returned(address, coordinates) ==
    [NoLoc EXCEPT !.address = Some(address), !.coordinates = Some(coordinates)]

InsertUser(p, op, body, address, coordinates) ==
    /\ userSeq < MaxUsers
    /\ userSeq' = userSeq + 1
    /\ users' = users @@ (userSeq + 1 :> UserDoc(Val(body.name), address, coordinates))
    /\ Set(p, Done(op, userSeq + 1, 0, body, Returned(address, coordinates),
                   "OK", "none"))

Fail(p, op, uid, rid, body, res, cause) ==
    /\ Set(p, Done(op, uid, rid, body, NoLoc, res, cause))
    /\ UNCHANGED <<users, regions, userSeq, regionSeq, deletedOk>>

\* POST /users, handler of api/controllers/user.controller.ts: the document
\* is built from the body alone and the pre-save hook derives the rest.
\* Mongoose validates required paths before the pre-save hook runs.
createUser(p, body) ==
    /\ CanStart(p)
    /\ ops' = ops + 1
    /\ IF ~CreateUserBodySchema(body)
       THEN Fail(p, "createUser", 0, 0, body, "ValidationError", "schema")
       ELSE IF ~IsSome(body.address)
       THEN Fail(p, "createUser", 0, 0, body, "BadRequestError", "validation")
       ELSE LET h == UserPreSave(Val(body.address), << >>,
                                 IsSome(body.coordinates), IsSome(body.address))
            IN  IF ~h.ok
                THEN Fail(p, "createUser", 0, 0, body, "BadRequestError", "geocoding")
                ELSE /\ InsertUser(p, "createUser", body, h.address, h.coordinates)
                     /\ UNCHANGED <<regions, regionSeq, deletedOk>>

\* POST /users, handler of api/adapters/handlers.adapter.ts: the handler
\* converts first, then the document is saved with both fields set.
createUserAdapter(p, body) ==
    /\ CanStart(p)
    /\ ops' = ops + 1
    /\ IF ~CreateUserBodySchema(body)
       THEN Fail(p, "createUserAdapter", 0, 0, body, "ValidationError", "schema")
       ELSE LET c == ConvertLocation(body) IN
            IF ~c.ok
            THEN Fail(p, "createUserAdapter", 0, 0, body, "BadRequestError", "geocoding")
            ELSE LET h == UserPreSave(Val(c.address), Val(c.coordinates), TRUE, TRUE)
                 IN  IF ~h.ok
                     THEN Fail(p, "createUserAdapter", 0, 0, body,
                               "BadRequestError", "geocoding")
                     ELSE /\ InsertUser(p, "createUserAdapter", body,
                                        h.address, h.coordinates)
                          /\ UNCHANGED <<regions, regionSeq, deletedOk>>

\* Object.assign(user, update) followed by the pre-save hook: the paths the
\* save will write, as optional values, and the version the document had
\* when it was loaded.
AssignAndHook(doc, update) ==
    LET name == IF IsSome(update.name) THEN Val(update.name) ELSE doc.name
        address == IF IsSome(update.address) THEN Val(update.address) ELSE doc.address
        coordinates == IF IsSome(update.coordinates) THEN Val(update.coordinates)
                       ELSE doc.coordinates
        h == UserPreSave(address, coordinates,
                         coordinates # doc.coordinates, address # doc.address)
    IN  [ok |-> h.ok,
         loc |-> [name |-> IF name # doc.name THEN Some(name) ELSE None,
                  address |-> IF h.address # doc.address \/ address # doc.address
                              THEN Some(h.address) ELSE None,
                  coordinates |-> IF h.coordinates # doc.coordinates
                                  THEN Some(h.coordinates) ELSE None,
                  regions |-> << >>, v |-> doc.v, valid |-> TRUE]]

\* PUT /users/:id up to the save: validation, findOne, the handler's
\* conversion, Object.assign and the pre-save hook
updateUser(p, id, body) ==
    /\ CanStart(p)
    /\ ops' = ops + 1
    /\ UNCHANGED <<users, regions, userSeq, regionSeq, deletedOk>>
    /\ IF ~UpdateUserBodySchema(body)
       THEN Set(p, Done("updateUser", id, 0, body, NoLoc, "ValidationError", "schema"))
       ELSE IF id \notin DOMAIN users
       THEN Set(p, Done("updateUser", id, 0, body, NoLoc, "NotFoundError", "user_not_found"))
       ELSE LET c == ConvertLocation(body) IN
            IF ~c.ok
            THEN Set(p, Done("updateUser", id, 0, body, NoLoc,
                             "BadRequestError", "geocoding"))
            ELSE LET a == AssignAndHook(users[id],
                              [name |-> body.name, address |-> c.address,
                               coordinates |-> c.coordinates])
                 IN  IF ~a.ok
                     THEN Set(p, Done("updateUser", id, 0, body, NoLoc,
                                      "Error", "geocoding"))
                     ELSE Set(p, At("uu_save", "updateUser", id, 0, body, a.loc))

\* the document after its modified paths are written; setting the
\* coordinates array increments the version key
WriteUser(doc, loc) ==
    [doc EXCEPT !.name = IF IsSome(loc.name) THEN Val(loc.name) ELSE @,
                !.address = IF IsSome(loc.address) THEN Val(loc.address) ELSE @,
                !.coordinates = IF IsSome(loc.coordinates) THEN Val(loc.coordinates) ELSE @,
                !.v = IF IsSome(loc.coordinates) THEN @ + 1 ELSE @]

\* user.save() of updateUser: only the modified paths are sent; an array
\* that was set is sent with the loaded version in the filter
updateUserSave(p) ==
    LET r == proc[p]
        modified == IsSome(r.loc.name) \/ IsSome(r.loc.address) \/ IsSome(r.loc.coordinates)
    IN
    /\ Resumes(p, "uu_save")
    /\ UNCHANGED <<regions, userSeq, regionSeq, ops, deletedOk>>
    /\ IF ~modified
       THEN /\ Set(p, Done(r.op, r.uid, 0, r.body, r.loc, "OK", "none"))
            /\ UNCHANGED users
       ELSE IF \/ r.uid \notin DOMAIN users
               \/ (IsSome(r.loc.coordinates) /\ users[r.uid].v # r.loc.v)
       THEN /\ Set(p, Done(r.op, r.uid, 0, r.body, r.loc, "Error", "version"))
            /\ UNCHANGED users
       ELSE /\ users' = [users EXCEPT ![r.uid] = WriteUser(@, r.loc)]
            /\ Set(p, Done(r.op, r.uid, 0, r.body, r.loc, "OK", "none"))

Remove(f, k) == [x \in DOMAIN f \ {k} |-> f[x]]

\* DELETE /users/:id
deleteUser(p, id) ==
    /\ CanStart(p)
    /\ ops' = ops + 1
    /\ UNCHANGED <<regions, userSeq, regionSeq, deletedOk>>
    /\ IF id \notin DOMAIN users
       THEN /\ Set(p, Done("deleteUser", id, 0, EmptyBody, NoLoc,
                           "NotFoundError", "user_not_found"))
            /\ UNCHANGED users
       ELSE /\ users' = Remove(users, id)
            /\ Set(p, Done("deleteUser", id, 0, EmptyBody, NoLoc, "OK", "none"))

-----------------------------------------------------------------------------
(* Region model and handlers *)

RegionDoc(user) == [user |-> user]

\* what the caller of region.save() sees when the save rejects with an
\* error that is not an AppError: createRegion wraps it
Rejected(op) == IF op = "createRegion" THEN "BadRequestError" ELSE "Error"

\* POST /users/:userId/regions up to region.save(): the handler's own owner
\* lookup and the construction of the document, which generates its _id
createRegion(p, userId) ==
    /\ CanStart(p)
    /\ ops' = ops + 1
    /\ UNCHANGED <<users, regions, userSeq, deletedOk>>
    /\ IF userId \notin DOMAIN users
       THEN /\ Set(p, Done("createRegion", userId, 0, EmptyBody, NoLoc,
                           "NotFoundError", "user_not_found"))
            /\ UNCHANGED regionSeq
       ELSE /\ regionSeq < MaxRegions
            /\ regionSeq' = regionSeq + 1
            /\ Set(p, At("hook_find", "createRegion", userId, regionSeq + 1,
                         EmptyBody, NoLoc))

\* RegionModel.create([...]) called on the model (tests, seeding): the
\* document may lack required fields
RegionModelCreate(p, userId, valid) ==
    /\ CanStart(p)
    /\ ops' = ops + 1
    /\ UNCHANGED <<users, regions, userSeq, deletedOk>>
    /\ regionSeq < MaxRegions
    /\ regionSeq' = regionSeq + 1
    /\ Set(p, At("hook_find", "RegionModel.create", userId, regionSeq + 1,
                 EmptyBody, [NoLoc EXCEPT !.valid = valid]))

\* Region pre-save hook, isNew branch: UserModel.findOne({ _id: this.user })
RegionPreSaveFind(p) ==
    LET r == proc[p] IN
    /\ Resumes(p, "hook_find")
    /\ UNCHANGED <<users, regions, userSeq, regionSeq, ops, deletedOk>>
    /\ IF r.uid \notin DOMAIN users
       THEN Set(p, Done(r.op, r.uid, r.rid, r.body, r.loc,
                        Rejected(r.op), "user_not_found"))
       ELSE Set(p, At("hook_save", r.op, r.uid, r.rid, r.body, r.loc))

\* a push that does not reach the array
PushRegionLost(doc, rid) ==
    [doc EXCEPT !.v = @ + 1]

\* user.regions.push(this._id)
PushRegion(doc, rid) ==
    [doc EXCEPT !.regions = Append(@, rid), !.v = @ + 1]

\* Region pre-save hook: user.regions.push(this._id); await user.save().
\* No session is open, so the write is committed on its own.
RegionPreSaveUser(p) ==
    LET r == proc[p] IN
    /\ Resumes(p, "hook_save")
    /\ UNCHANGED <<regions, userSeq, regionSeq, ops, deletedOk>>
    /\ IF r.uid \notin DOMAIN users
       THEN /\ Set(p, Done(r.op, r.uid, r.rid, r.body, r.loc,
                           Rejected(r.op), "version"))
            /\ UNCHANGED users
       ELSE /\ users' = [users EXCEPT ![r.uid] = PushRegion(@, r.rid)]
            /\ Set(p, At("hook_validate", r.op, r.uid, r.rid, r.body, r.loc))

\* Region pre-save hook: next(this.validateSync()), then the insert
RegionPreSaveValidate(p) ==
    LET r == proc[p] IN
    /\ Resumes(p, "hook_validate")
    /\ UNCHANGED <<users, userSeq, regionSeq, ops, deletedOk>>
    /\ IF ~r.loc.valid
       THEN /\ Set(p, Done(r.op, r.uid, r.rid, r.body, r.loc,
                           Rejected(r.op), "validation"))
            /\ UNCHANGED regions
       ELSE /\ regions' = regions @@ (r.rid :> RegionDoc(r.uid))
            /\ Set(p, Done(r.op, r.uid, r.rid, r.body, r.loc, "OK", "none"))

\* a filter whose comparison never matches
FilterRegionsKeepsAll(list, id) == SelectSeq(list, LAMBDA r : TRUE)

\* user.regions.filter((r) => r.toString() !== id)
FilterRegions(list, id) == SelectSeq(list, LAMBDA r : r # id)

\* DELETE /regions/:id up to the owner lookup: RegionModel.findOne
deleteRegion(p, id) ==
    /\ CanStart(p)
    /\ ops' = ops + 1
    /\ UNCHANGED <<users, regions, userSeq, regionSeq, deletedOk>>
    /\ IF id \notin DOMAIN regions
       THEN Set(p, Done("deleteRegion", 0, id, EmptyBody, NoLoc,
                        "NotFoundError", "region_not_found"))
       ELSE Set(p, At("dr_user", "deleteRegion", regions[id].user, id,
                      EmptyBody, NoLoc))

\* deleteRegion: UserModel.findOne({ _id: region.user }) and the filter
deleteRegionFindUser(p) ==
    LET r == proc[p] IN
    /\ Resumes(p, "dr_user")
    /\ UNCHANGED <<users, regions, userSeq, regionSeq, ops, deletedOk>>
    /\ IF r.uid \notin DOMAIN users
       THEN Set(p, At("dr_delete", r.op, r.uid, r.rid, r.body, r.loc))
       ELSE LET doc == users[r.uid]
                filtered == FilterRegions(doc.regions, r.rid)
            IN  IF filtered = doc.regions
                THEN Set(p, At("dr_delete", r.op, r.uid, r.rid, r.body, r.loc))
                ELSE Set(p, At("dr_save", r.op, r.uid, r.rid, r.body,
                               [r.loc EXCEPT !.regions = filtered, !.v = doc.v]))

\* the document after its regions array is replaced
SetRegions(doc, list) == [doc EXCEPT !.regions = list, !.v = @ + 1]

\* deleteRegion: await user.save() of the replaced regions array, sent with
\* the loaded version in the filter
deleteRegionSaveUser(p) ==
    LET r == proc[p] IN
    /\ Resumes(p, "dr_save")
    /\ UNCHANGED <<regions, userSeq, regionSeq, ops, deletedOk>>
    /\ IF r.uid \notin DOMAIN users \/ users[r.uid].v # r.loc.v
       THEN /\ Set(p, Done(r.op, r.uid, r.rid, r.body, r.loc, "Error", "version"))
            /\ UNCHANGED users
       ELSE /\ users' = [users EXCEPT ![r.uid] = SetRegions(@, r.loc.regions)]
            /\ Set(p, At("dr_delete", r.op, r.uid, r.rid, r.body, r.loc))

\* deleteRegion: RegionModel.deleteOne({ _id: id }) and the return
deleteRegionDeleteOne(p) ==
    LET r == proc[p] IN
    /\ Resumes(p, "dr_delete")
    /\ UNCHANGED <<users, userSeq, regionSeq, ops>>
    /\ regions' = Remove(regions, r.rid)
    /\ deletedOk' = deletedOk \cup {r.rid}
    /\ Set(p, Done(r.op, r.uid, r.rid, r.body, r.loc, "OK", "none"))

\* GET /regions/:id arrives
getRegionById(p, id) ==
    /\ CanStart(p)
    /\ ops' = ops + 1
    /\ UNCHANGED <<users, regions, userSeq, regionSeq, deletedOk>>
    /\ Set(p, At("gr_find", "getRegionById", 0, id, EmptyBody, NoLoc))

\* getRegionById: RegionModel.findOne({ _id: id }).lean()
getRegionByIdFind(p) ==
    LET r == proc[p] IN
    /\ Resumes(p, "gr_find")
    /\ UNCHANGED <<users, regions, userSeq, regionSeq, ops, deletedOk>>
    /\ IF r.rid \notin DOMAIN regions
       THEN Set(p, Done(r.op, 0, r.rid, r.body, r.loc,
                        "NotFoundError", "region_not_found"))
       ELSE Set(p, Done(r.op, regions[r.rid].user, r.rid, r.body, r.loc, "OK", "none"))

\* the response is sent and the slot is free for the next request
Respond(p) ==
    /\ proc[p].pc = "done"
    /\ Set(p, Idle)
    /\ UNCHANGED <<users, regions, userSeq, regionSeq, ops, deletedOk>>

-----------------------------------------------------------------------------
(* Database connection manager *)

maxRetries == 5
initialDelay == 1000
maxDelay == 30000
factor == 2

\* bounds on the calls that are in flight at the same time
MaxConnects == 2
MaxCloses == 1

\* The Database classes of the repository that keep a connection: the state
\* machine that dispatches on the status with a switch, the one that does so
\* with an if chain, and the one that keeps only the connection.
DatabaseClasses == {"part_002", "seed.ts:890", "seed.ts:746"}

Statuses == {"disconnected", "connecting", "connected", "error"}

\* private state: DatabaseState
InitialState ==
    [connection |-> "null", status |-> "disconnected", retryCount |-> 0,
     retryTimeout |-> None]

Min(a, b) == IF a <= b THEN a ELSE b

RECURSIVE Pow(_, _)
Pow(base, exponent) ==
    IF exponent = 0 THEN 1 ELSE base * Pow(base, exponent - 1)

\* a scheduleReconnect that never resets the retry count
scheduleReconnectNoReset(s) ==
    [s EXCEPT !.retryTimeout =
                  Some(Min(initialDelay * Pow(factor, s.retryCount), maxDelay))]

\* scheduleReconnect: the state after it, with the delay of the new timer
\* in retryTimeout; the timer it replaces is cleared
scheduleReconnect(s) ==
    LET retryCount == IF s.retryCount >= maxRetries THEN 0 ELSE s.retryCount
        delay == Min(initialDelay * Pow(factor, retryCount), maxDelay)
    IN  [s EXCEPT !.retryCount = retryCount, !.retryTimeout = Some(delay)]

\* what a call of initialize does before it first suspends
Sync(s, connect, scheduled, ret) ==
    [state |-> s, connect |-> connect, scheduled |-> scheduled, ret |-> ret]

\* an initialize without the "connecting" case
initializeNoConnectingCase(s) ==
    CASE s.status = "connected" -> Sync(s, FALSE, FALSE, s.connection)
      [] s.status = "error" -> Sync(scheduleReconnect(s), FALSE, TRUE, "null")
      [] OTHER -> Sync([s EXCEPT !.status = "connecting"], TRUE, FALSE, "pending")

\* Database.initialize of part_002, up to await mongoose.connect
initialize(s) ==
    CASE s.status = "connecting" -> Sync(s, FALSE, FALSE, "null")
      [] s.status = "connected" -> Sync(s, FALSE, FALSE, s.connection)
      [] s.status = "error" -> Sync(scheduleReconnect(s), FALSE, TRUE, "null")
      [] OTHER -> Sync([s EXCEPT !.status = "connecting"], TRUE, FALSE, "pending")

\* Database.initialize of database/seed.ts (line 950), up to the await
initialize_950(s) ==
    IF s.status = "connecting" THEN Sync(s, FALSE, FALSE, "null")
    ELSE IF s.status = "connected" /\ s.connection # "null"
    THEN Sync(s, FALSE, FALSE, s.connection)
    ELSE Sync([s EXCEPT !.status = "connecting"], TRUE, FALSE, "pending")

\* Database.initialize of database/seed.ts (line 801), up to the await
initialize_801(s) == Sync(s, TRUE, FALSE, "pending")

Initialize(s) ==
    CASE dbClass = "part_002" -> initialize(s)
      [] dbClass = "seed.ts:890" -> initialize_950(s)
      [] OTHER -> initialize_801(s)

\* the classes that keep a status and reconnect
Supervises == dbClass # "seed.ts:746"

Step(op, scheduled, ret) == [op |-> op, scheduled |-> scheduled, ret |-> ret]

\* database.initialize() is called
initializeCall ==
    LET r == Initialize(state) IN
    /\ r.connect => connects < MaxConnects
    /\ state' = r.state
    /\ connects' = IF r.connect THEN connects + 1 ELSE connects
    /\ timerPending' = (timerPending \/ r.scheduled)
    /\ dbLast' = Step("initialize", r.scheduled, r.ret)
    /\ closedFrom' = "none"
    /\ UNCHANGED <<dbClass, closes, up, ismaster, seeding, apiVars, authVars, utilVars>>

\* the callback of setTimeout in scheduleReconnect runs
retryTimeoutFires ==
    LET r == Initialize([state EXCEPT !.retryCount = @ + 1]) IN
    /\ timerPending
    /\ r.connect => connects < MaxConnects
    /\ state' = r.state
    /\ connects' = IF r.connect THEN connects + 1 ELSE connects
    /\ timerPending' = r.scheduled
    /\ dbLast' = Step("retryTimeout", r.scheduled, "none")
    /\ closedFrom' = "none"
    /\ UNCHANGED <<dbClass, closes, up, ismaster, seeding, apiVars, authVars, utilVars>>

\* await mongoose.connect resolves: the rest of the try block of initialize
connectResolves(primary) ==
    /\ connects > 0
    /\ connects' = connects - 1
    /\ state' = IF Supervises
                THEN [state EXCEPT !.connection = "connection",
                                   !.status = "connected", !.retryCount = 0]
                ELSE [state EXCEPT !.connection = "connection"]
    /\ up' = TRUE
    /\ ismaster' = IF up THEN ismaster ELSE primary
    /\ dbLast' = Step("connected", FALSE, "connection")
    /\ UNCHANGED <<dbClass, closedFrom, timerPending, closes, seeding, apiVars, authVars, utilVars>>

\* await mongoose.connect rejects: the catch block of initialize
connectRejects ==
    /\ connects > 0
    /\ ~up
    /\ connects' = connects - 1
    /\ IF Supervises
       THEN /\ state' = scheduleReconnect([state EXCEPT !.status = "error"])
            /\ timerPending' = TRUE
            /\ dbLast' = Step("failed", TRUE, "null")
       ELSE /\ dbLast' = Step("failed", FALSE, "Error")
            /\ UNCHANGED <<state, timerPending>>
    /\ UNCHANGED <<dbClass, closedFrom, closes, up, ismaster, seeding, apiVars, authVars, utilVars>>

\* connection.on("disconnected"): the driver's connection closes, because it
\* is lost or because connection.close() is closing it
onDisconnected ==
    /\ up
    /\ up' = FALSE
    /\ IF Supervises
       THEN /\ state' = scheduleReconnect([state EXCEPT !.status = "disconnected"])
            /\ timerPending' = TRUE
            /\ dbLast' = Step("disconnected", TRUE, "none")
       ELSE /\ dbLast' = Step("disconnected", FALSE, "none")
            /\ UNCHANGED <<state, timerPending>>
    /\ UNCHANGED <<dbClass, closedFrom, connects, closes, ismaster, seeding, apiVars, authVars, utilVars>>

\* connection.on("error")
onError ==
    /\ up
    /\ Supervises
    /\ state' = scheduleReconnect([state EXCEPT !.status = "error"])
    /\ timerPending' = TRUE
    /\ dbLast' = Step("error", TRUE, "none")
    /\ UNCHANGED <<dbClass, closedFrom, connects, closes, up, ismaster, seeding, apiVars, authVars, utilVars>>

\* database.close() is called: up to await connection.close()
closeCall ==
    /\ IF Supervises
       THEN LET s == [state EXCEPT !.retryTimeout = None] IN
            /\ timerPending' = FALSE
            /\ IF s.connection = "null"
               THEN /\ state' = [s EXCEPT !.status = "disconnected"]
                    /\ dbLast' = Step("close", FALSE, "undefined")
                    /\ UNCHANGED closes
               ELSE /\ closes < MaxCloses
                    /\ state' = s
                    /\ closes' = closes + 1
                    /\ dbLast' = Step("close", FALSE, "pending")
       ELSE /\ IF state.connection = "null"
               THEN /\ dbLast' = Step("close", FALSE, "Error")
                    /\ UNCHANGED closes
               ELSE /\ closes < MaxCloses
                    /\ closes' = closes + 1
                    /\ dbLast' = Step("close", FALSE, "pending")
            /\ UNCHANGED <<state, timerPending>>
    /\ closedFrom' = state.status
    /\ UNCHANGED <<dbClass, connects, up, ismaster, seeding, apiVars, authVars, utilVars>>

\* await connection.close() resolves, the driver's connection being closed:
\* the rest of close
closeResolves ==
    /\ closes > 0
    /\ ~up
    /\ closes' = closes - 1
    /\ state' = IF Supervises
                THEN [state EXCEPT !.connection = "null", !.status = "disconnected"]
                ELSE state
    /\ dbLast' = Step("closed", FALSE, "undefined")
    /\ UNCHANGED <<dbClass, closedFrom, timerPending, connects, up, ismaster, seeding, apiVars, authVars, utilVars>>

\* Database.verifyPrimaryConnection: private, and no method calls it
verifyPrimaryConnection(s, master, writable) ==
    IF s.connection = "null" THEN "Database connection not established"
    ELSE IF ~master THEN "Not connected to primary node"
    ELSE IF ~writable THEN "Database is not writable"
    ELSE "ok"

\* main of the seeding script once database.initialize() has given it a
\* connection: new DatabaseSeeder(connection).seed(seedOptions)
mainSeed ==
    /\ seeding = "none"
    /\ dbLast.ret = "connection"
    /\ seeding' = "issued"
    /\ dbLast' = Step("seed", FALSE, "none")
    /\ UNCHANGED <<dbClass, closedFrom, state, timerPending, connects, closes, up, ismaster,
                   apiVars, authVars, utilVars>>

-----------------------------------------------------------------------------
(* API keys *)

\* Strings are sequences of one-character strings.
HexDigits ==
    <<"0", "1", "2", "3", "4", "5", "6", "7",
      "8", "9", "a", "b", "c", "d", "e", "f">>

IsHex(ch) == \E i \in 1..16 : HexDigits[i] = ch
HexValue(ch) == (CHOOSE i \in 1..16 : HexDigits[i] = ch) - 1

\* the code of a character: hexadecimal digits first, then the others
CharCode(ch) == IF IsHex(ch) THEN HexValue(ch) ELSE 16

\* bytes of a digest; the digest of the miniature is shorter than SHA-256's
DigestBytes == 2

\* crypto.createHash("sha256").update(key): a stand-in that folds the
\* characters of the key into DigestBytes bytes and has no collision among
\* the keys of the model
RECURSIVE Fold(_, _)
Fold(key, h) ==
    IF key = << >> THEN h
    ELSE Fold(Tail(key), (h * 31 + CharCode(Head(key))) % Pow(256, DigestBytes))

createHash(key) ==
    [i \in 1..DigestBytes |->
        (Fold(key, 7) \div Pow(256, DigestBytes - i)) % 256]

\* .digest("hex") and .toString("hex"): two lower-case digits per byte
RECURSIVE ToHex(_)
ToHex(bytes) ==
    IF bytes = << >> THEN << >>
    ELSE << HexDigits[(Head(bytes) \div 16) + 1], HexDigits[(Head(bytes) % 16) + 1] >>
             \o ToHex(Tail(bytes))

\* Buffer.from(string, "hex"): decoding stops at the first pair that is not
\* two hexadecimal digits; a single trailing character is dropped
RECURSIVE BufferFromHex(_)
BufferFromHex(str) ==
    IF Len(str) < 2 \/ ~IsHex(str[1]) \/ ~IsHex(str[2]) THEN << >>
    ELSE << 16 * HexValue(str[1]) + HexValue(str[2]) >>
             \o BufferFromHex(SubSeq(str, 3, Len(str)))

\* crypto.timingSafeEqual: a RangeError when the byte lengths differ
timingSafeEqual(a, b) ==
    IF Len(a) # Len(b) THEN [threw |-> TRUE, value |-> FALSE]
    ELSE [threw |-> FALSE, value |-> a = b]

\* ApiKeyService.hash
hash(key) == ToHex(createHash(key))

\* a verify that compares the key itself with the stored hash
verifyUnhashed(providedApiKey, storedHashedApiKey) ==
    timingSafeEqual(BufferFromHex(providedApiKey),
                    BufferFromHex(storedHashedApiKey))

\* ApiKeyService.verify
verify(providedApiKey, storedHashedApiKey) ==
    timingSafeEqual(BufferFromHex(hash(providedApiKey)),
                    BufferFromHex(storedHashedApiKey))

\* keys that ApiKeyService.generate can give: hexadecimal strings of one length
GeneratedKeys == {<<"0", "0">>, <<"0", "a">>, <<"a", "0">>, <<"a", "a">>}

\* strings a caller can pass as a key
KeyAlphabet == {"0", "a", "z"}
CandidateKeys ==
    {<< >>} \cup {<<c>> : c \in KeyAlphabet}
            \cup {<<c, d>> : c \in KeyAlphabet, d \in KeyAlphabet}

\* values that can be passed or stored as a hash: the hashes of keys, and
\* strings that are no SHA-256 hex digest
MalformedHashes ==
    { << >>, <<"z", "z">>, <<"a", "b", "c">>, hash(<<"0", "0">>) \o <<"z">> }
StoredHashes == {hash(k) : k \in GeneratedKeys} \cup MalformedHashes

NoCall == [pc |-> "none", providedApiKey |-> << >>, storedHashedApiKey |-> << >>,
           hashed |-> << >>, threw |-> FALSE, value |-> FALSE]

\* ApiKeyService.hash(providedApiKey) and
\* ApiKeyService.verify(providedApiKey, storedHashedApiKey) are evaluated
verifyCall ==
    /\ call.pc = "called"
    /\ LET r == verify(call.providedApiKey, call.storedHashedApiKey) IN
       call' = [call EXCEPT !.pc = "returned",
                            !.hashed = hash(call.providedApiKey),
                            !.threw = r.threw, !.value = r.value]
    /\ UNCHANGED <<authUsers, request, apiVars, dbVars, utilVars>>

-----------------------------------------------------------------------------
(* Authentication middleware *)

Str_docs == <<"/", "d", "o", "c", "s">>
Str_users == <<"/", "u", "s", "e", "r", "s">>
Str_regions == <<"/", "r", "e", "g", "i", "o", "n", "s">>

\* PUBLIC_ROUTES = ["/docs", "/users"]
PUBLIC_ROUTES == << Str_docs, Str_users >>

\* URLs of requests
Urls ==
    { Str_docs, Str_users, Str_users \o <<"/", "1">>,
      Str_users \o <<"/", "1">> \o Str_regions,
      Str_regions, Str_regions \o <<"/", "1">>, <<"/">> }

\* String.prototype.startsWith
startsWith(str, prefix) ==
    Len(prefix) <= Len(str) /\ SubSeq(str, 1, Len(prefix)) = prefix

\* publicRoutes.some((route) => request.url.startsWith(route))
isPublicRoute(url) ==
    \E i \in DOMAIN PUBLIC_ROUTES : startsWith(url, PUBLIC_ROUTES[i])

\* values of the x-api-key header: absent, empty, or a string
ApiKeyHeaders ==
    {None, Some(<< >>), Some(<<"0", "0">>), Some(<<"a", "a">>), Some(<<"z">>)}

\* users of the collection, as the middleware reads them
NumAuthUsers == 2
AuthUserHashes == {hash(<<"0", "0">>), hash(<<"a", "a">>), << >>}

\* User.verifyApiKey inside the try/catch of the middleware's find callback
verifyApiKey(u, apiKey) ==
    LET r == verify(apiKey, u.apiKeyHash) IN ~r.threw /\ r.value

\* a search that takes the first user whatever the key
firstUser(list, apiKey) == IF list = << >> THEN 0 ELSE 1

\* users.find((u) => u.verifyApiKey(apiKey)): the index of the first user
\* whose key verifies, 0 when there is none
findUser(list, apiKey) ==
    LET hits == {i \in DOMAIN list : verifyApiKey(list[i], apiKey)} IN
    IF hits = {} THEN 0 ELSE CHOOSE i \in hits : \A j \in hits : i <= j

NoRequest == [pc |-> "none", method |-> "", url |-> << >>, apiKey |-> None,
              statusCode |-> 0, message |-> "", user |-> 0, handled |-> FALSE,
              routed |-> FALSE]

\* the hook has returned without a reply and the route handler runs
Handled(r, user) ==
    [r EXCEPT !.pc = "done", !.statusCode = 200, !.user = user, !.handled = TRUE]

\* reply.status(401).send
Unauthorized(r, message) ==
    [r EXCEPT !.pc = "done", !.statusCode = 401, !.message = message]

\* the onRequest hook of createAuthMiddleware up to await UserModel.find()
authMiddleware(method, url, header) ==
    LET r == [NoRequest EXCEPT !.method = method, !.url = url,
                               !.apiKey = header] IN
    /\ request.pc \in {"none", "done"}
    /\ request' =
           IF isPublicRoute(url) THEN Handled(r, 0)
           ELSE IF ~IsSome(header) \/ Val(header) = << >>
           THEN Unauthorized(r, "API key is missing")
           ELSE [r EXCEPT !.pc = "find"]
    /\ UNCHANGED <<call, authUsers, apiVars, dbVars, utilVars>>

\* the hook from the result of UserModel.find() on
authMiddlewareFind ==
    LET user == findUser(authUsers, Val(request.apiKey)) IN
    /\ request.pc = "find"
    /\ request' = IF user = 0 THEN Unauthorized(request, "Invalid API key")
                  ELSE Handled(request, user)
    /\ UNCHANGED <<call, authUsers, apiVars, dbVars, utilVars>>

\* regenerateApiKey: the user's stored hash is replaced by a new key's
regenerateApiKey(i, newApiKey) ==
    /\ i \in DOMAIN authUsers
    /\ authUsers[i].apiKeyHash # hash(newApiKey)
    /\ authUsers' = [authUsers EXCEPT ![i].apiKeyHash = hash(newApiKey)]
    /\ UNCHANGED <<call, request, apiVars, dbVars, utilVars>>

\* methods of requests, and the URL of the routes on one user
Methods == {"GET", "PUT", "DELETE"}
UserUrlId == 1
UserUrl == Str_users \o <<"/", "1">>

\* the hook has returned without a reply: the route of the request's method
\* and URL is the next step of the request
Dispatches(method, url) ==
    /\ request.pc = "done"
    /\ request.handled
    /\ ~request.routed
    /\ request.method = method
    /\ request.url = url

\* app.delete("/users/:id", deleteUser): the user leaves the collection, and
\* with it the list UserModel.find() returns
deleteUserRoute ==
    /\ Dispatches("DELETE", UserUrl)
    /\ request' = [request EXCEPT !.routed = TRUE]
    /\ users' = IF UserUrlId \in DOMAIN users THEN Remove(users, UserUrlId)
                ELSE users
    /\ authUsers' = SelectSeq(authUsers, LAMBDA u : u.id # UserUrlId)
    /\ UNCHANGED <<regions, userSeq, regionSeq, proc, ops, deletedOk, call, dbVars, utilVars>>

\* updateUser as one step, no other handler running between its awaits
updateUserDocument(doc, body) ==
    LET c == ConvertLocation(body)
        a == AssignAndHook(doc, [name |-> body.name, address |-> c.address,
                                 coordinates |-> c.coordinates])
    IN  IF UpdateUserBodySchema(body) /\ c.ok /\ a.ok THEN WriteUser(doc, a.loc)
        ELSE doc

\* app.put("/users/:id", updateUser)
updateUserRoute(body) ==
    /\ Dispatches("PUT", UserUrl)
    /\ request' = [request EXCEPT !.routed = TRUE]
    /\ users' = IF UserUrlId \in DOMAIN users
                THEN [users EXCEPT ![UserUrlId] = updateUserDocument(@, body)]
                ELSE users
    /\ UNCHANGED <<regions, userSeq, regionSeq, proc, ops, deletedOk, call,
                   authUsers, dbVars, utilVars>>

-----------------------------------------------------------------------------
(* Pagination *)

\* bounds of the calls of paginate
MaxPage == 4
MaxLimit == 3
MaxTotal == 6

\* the documents model.find(filter) matches, in the order of the query's sort
Matching(total) == [i \in 1..total |-> 100 + i]

\* Query.skip and Query.limit
Skip(docs, n) == IF n >= Len(docs) THEN << >> ELSE SubSeq(docs, n + 1, Len(docs))
Limit(docs, n) == IF n >= Len(docs) THEN docs ELSE SubSeq(docs, 1, n)

\* Math.ceil(a / b) for a >= 0 and b >= 1
ceil(a, b) == IF a % b = 0 THEN a \div b ELSE a \div b + 1

\* a skip that counts pages from zero
skipOnePageFurther(page, limit) == page * limit

\* const skip = (page - 1) * limit
skip(page, limit) == (page - 1) * limit

\* PaginationUtil.paginate over a collection of total matching documents
paginate(page, limit, total) ==
    LET docs == Limit(Skip(Matching(total), skip(page, limit)), limit)
        totalItems == Len(Matching(total))
        totalPages == ceil(totalItems, limit)
    IN  [data |-> docs,
         meta |-> [currentPage |-> page, itemsPerPage |-> limit,
                   totalItems |-> totalItems, totalPages |-> totalPages,
                   hasNextPage |-> page < totalPages,
                   hasPreviousPage |-> page > 1]]

NoPage == [data |-> << >>,
           meta |-> [currentPage |-> 0, itemsPerPage |-> 0, totalItems |-> 0,
                     totalPages |-> 0, hasNextPage |-> FALSE,
                     hasPreviousPage |-> FALSE]]

NoPageCall == [pc |-> "none", page |-> 0, limit |-> 0, total |-> 0,
               result |-> NoPage]

\* the call returns
paginateCall ==
    /\ pageCall.pc = "called"
    /\ pageCall' = [pageCall EXCEPT
                       !.pc = "returned",
                       !.result = paginate(pageCall.page, pageCall.limit,
                                           pageCall.total)]
    /\ UNCHANGED <<geoCall, seedVars, apiVars, dbVars, authVars>>

-----------------------------------------------------------------------------
(* Calls of the GeoCoding client *)

\* the points of the miniature globe
Points == LatRange \X LngRange

Str(n) == << DecimalDigits[n + 1] >>

\* the values coerceCoordinates is given: the four shapes of every point,
\* the tuple being [lng, lat] as the user document stores it, and values
\* that lack a component or are not coordinates
CoordinateValues ==
    UNION {{LatLngArray(pt[2], pt[1]),
            LatLngString(Str(pt[1]) \o <<",">> \o Str(pt[2])),
            LatLngLiteral(pt[1], pt[2]),
            LatLngLiteralVerbose(pt[1], pt[2])} : pt \in Points}
      \cup {LatLngString(<< >>), LatLngString(<<"1">>),
            LatLngString(<<"1", ",">>), LatLngString(<<"x", ",", "1">>),
            LatLngString(<<"1", ",", "x">>),
            [kind |-> "array", v |-> << >>], [kind |-> "array", v |-> <<1>>],
            NotLatLng("null"), NotLatLng("{lat}"), NotLatLng("{lat, lng: string}"),
            NotLatLng("[string, string]")}

\* the addresses getLocationFromAddress is given
Queries == {"A", "a", "B", "C", "Z"}

\* the lists of candidates the provider may answer a reverse lookup with:
\* places of the world, none twice, in any order
CandidateLists ==
    {l \in UNION {[1..n -> DOMAIN World] : n \in 0..Len(World)} :
        \A i, j \in DOMAIN l : i # j => l[i] # l[j]}
Candidates(l) == [i \in DOMAIN l |-> World[l[i]]]

NoGeoCall ==
    [pc |-> "none", fn |-> "", coordinates |-> LatLngLiteral(0, 0),
     address |-> "", results |-> << >>, coerced |-> CoerceThrew,
     match |-> GeoFail]

GeoReturns(fn) == geoCall.pc = "called" /\ geoCall.fn = fn

coerceCoordinatesCall ==
    /\ GeoReturns("coerceCoordinates")
    /\ geoCall' = [geoCall EXCEPT !.pc = "returned",
                       !.coerced = coerceCoordinates(geoCall.coordinates)]
    /\ UNCHANGED <<pageCall, seedVars, apiVars, dbVars, authVars>>

\* getLocationFromAddress, with the candidates the provider answered
getLocationFromAddressCall ==
    /\ GeoReturns("getLocationFromAddress")
    /\ geoCall' = [geoCall EXCEPT !.pc = "returned",
                       !.results = geocode(geoCall.address),
                       !.match = getLocationFromAddress(geoCall.address)]
    /\ UNCHANGED <<pageCall, seedVars, apiVars, dbVars, authVars>>

\* findNearestLocationMatch of a reverse lookup
findNearestLocationMatchCall ==
    /\ GeoReturns("findNearestLocationMatch")
    /\ geoCall' = [geoCall EXCEPT !.pc = "returned",
                       !.match = findNearestLocationMatchLatLng(
                                     geoCall.results, geoCall.coordinates)]
    /\ UNCHANGED <<pageCall, seedVars, apiVars, dbVars, authVars>>

-----------------------------------------------------------------------------
(* Database seeder *)

\* number of users the seeder is asked for
SeedUserCount == 2

\* the seeder's loop over the users: the user of the current turn, the ids
\* RegionModel.create gives its documents, the documents it resolved with
NoSeeder == [pc |-> "none", user |-> 0, ids |-> {}, createdRegions |-> {}]

\* the next turn of the loop of seed, createUser having returned the user:
\* createRegionsForUser up to await RegionModel.create(regions), whose
\* documents are saved side by side, each through the Region pre-save hook
createRegionsForUser(numRegions) ==
    /\ seeder.pc \in {"none", "done"}
    /\ seeder.user + 1 \in DOMAIN users
    /\ seeder' = [NoSeeder EXCEPT !.pc = "create", !.user = seeder.user + 1,
                                  !.ids = regionSeq + 1 .. regionSeq + numRegions]
    /\ UNCHANGED <<pageCall, geoCall, creation, readyState, apiVars, dbVars, authVars>>

\* one document of RegionModel.create(regions) starts its save
seederRegionSave(p) ==
    /\ seeder.pc = "create"
    /\ regionSeq + 1 \in seeder.ids
    /\ RegionModelCreate(p, seeder.user, TRUE)

\* { $push: { regions: { $each: ids } } }, ids in ascending order
RECURSIVE PushEach(_, _)
PushEach(doc, ids) ==
    IF ids = {} THEN doc
    ELSE LET id == CHOOSE i \in ids : \A j \in ids : i <= j
         IN  PushEach([doc EXCEPT !.regions = Append(@, id)], ids \ {id})

\* RegionModel.create has resolved with the created documents:
\* UserModel.findByIdAndUpdate(user._id, { $push: ... $each ... })
createRegionsForUserPush ==
    /\ seeder.pc = "create"
    /\ regionSeq + 1 \notin seeder.ids
    /\ \A p \in Procs : proc[p].pc = "idle"
    /\ seeder' = [seeder EXCEPT !.pc = "done", !.createdRegions = seeder.ids]
    /\ users' = [users EXCEPT ![seeder.user] = PushEach(@, seeder.ids)]
    /\ UNCHANGED <<regions, userSeq, regionSeq, proc, ops, deletedOk, pageCall,
                   geoCall, creation, readyState, dbVars, authVars>>

-----------------------------------------------------------------------------
(* DatabaseSeeder.create *)

\* largest maxRetries the calls are given
MaxSeederRetries == 3

\* connection.readyState: disconnected, connected, connecting, disconnecting
ReadyStates == 0..3

NoCreation == [pc |-> "none", attempts |-> 0, maxRetries |-> 0,
               status |-> "none", message |-> ""]

\* the top of the while loop up to its first await
whileAttempts(c, rs) ==
    IF c.attempts < c.maxRetries
    THEN IF rs # 1 THEN [c EXCEPT !.pc = "once_connected"]
         ELSE [c EXCEPT !.pc = "serverStatus"]
    ELSE [c EXCEPT !.pc = "threw", !.message = "Failed to create DatabaseSeeder"]

\* the catch block up to its await
catch(c) ==
    LET attempts == c.attempts + 1 IN
    IF attempts = c.maxRetries
    THEN [c EXCEPT !.attempts = attempts, !.pc = "threw",
                   !.message = "Could not establish writable connection to MongoDB primary"]
    ELSE [c EXCEPT !.attempts = attempts, !.pc = "setTimeout"]

\* DatabaseSeeder.create(connection, maxRetries) is called
create ==
    /\ creation.pc = "called"
    /\ creation' = whileAttempts(creation, readyState)
    /\ UNCHANGED <<readyState, seeder, pageCall, geoCall, apiVars, dbVars, authVars>>

\* the connection changes its state, and emits "connected" when the new
\* state is 1: the listener of connection.once resolves the awaited promise
\* and the attempt goes on to adminDb.serverStatus()
connectionChanges(rs) ==
    /\ rs # readyState
    /\ readyState' = rs
    /\ creation' = IF rs = 1 /\ creation.pc = "once_connected"
                   THEN [creation EXCEPT !.pc = "serverStatus"]
                   ELSE creation
    /\ UNCHANGED <<seeder, pageCall, geoCall, apiVars, dbVars, authVars>>

\* await adminDb.serverStatus() settles: it rejects, or resolves with
\* writablePrimary true or false
serverStatusSettles(outcome) ==
    /\ creation.pc = "serverStatus"
    /\ creation' = IF outcome = "writablePrimary"
                   THEN [creation EXCEPT !.pc = "ping", !.status = outcome]
                   ELSE catch([creation EXCEPT !.status = outcome])
    /\ UNCHANGED <<readyState, seeder, pageCall, geoCall, apiVars, dbVars, authVars>>

\* await adminDb.ping() settles
pingSettles(resolved) ==
    /\ creation.pc = "ping"
    /\ creation' = IF resolved THEN [creation EXCEPT !.pc = "returned"]
                   ELSE catch([creation EXCEPT !.status = "ping rejected"])
    /\ UNCHANGED <<readyState, seeder, pageCall, geoCall, apiVars, dbVars, authVars>>

\* the timer of setTimeout(resolve, retryDelay) fires: the loop goes round
retryDelayFires ==
    /\ creation.pc = "setTimeout"
    /\ creation' = whileAttempts(creation, readyState)
    /\ UNCHANGED <<readyState, seeder, pageCall, geoCall, apiVars, dbVars, authVars>>

-----------------------------------------------------------------------------
(* Specification *)

\* no seeder
SeedIdle ==
    /\ seeder = NoSeeder
    /\ creation = NoCreation
    /\ readyState = 0

\* no call of the utilities
UtilIdle ==
    /\ pageCall = NoPageCall
    /\ geoCall = NoGeoCall
    /\ SeedIdle

EmptyCollection == [x \in {} |-> x]

\* the API before its first request
ApiIdle ==
    /\ users = EmptyCollection
    /\ regions = EmptyCollection
    /\ userSeq = 0
    /\ regionSeq = 0
    /\ proc = [p \in Procs |-> Idle]
    /\ ops = 0
    /\ deletedOk = {}

\* a Database that was constructed and not used
DbIdle ==
    /\ state = InitialState
    /\ timerPending = FALSE
    /\ connects = 0
    /\ closes = 0
    /\ up = FALSE
    /\ dbLast = Step("new", FALSE, "none")
    /\ ismaster = FALSE
    /\ seeding = "none"
    /\ closedFrom = "none"

\* no call of ApiKeyService, no user with a key and no request
AuthIdle ==
    /\ call = NoCall
    /\ authUsers = << >>
    /\ request = NoRequest

Init ==
    /\ ApiIdle
    /\ dbClass = "part_002"
    /\ DbIdle
    /\ UtilIdle
    /\ AuthIdle

Next ==
    \E p \in Procs :
        \/ \E body \in CreateUserBodies : createUser(p, body)
        \/ \E body \in CreateUserBodies : createUserAdapter(p, body)
        \/ \E id \in UserIds, body \in UpdateUserBodies : updateUser(p, id, body)
        \/ updateUserSave(p)
        \/ \E id \in UserIds : deleteUser(p, id)
        \/ \E id \in UserIds : createRegion(p, id)
        \/ \E id \in UserIds, valid \in BOOLEAN : RegionModelCreate(p, id, valid)
        \/ RegionPreSaveFind(p)
        \/ RegionPreSaveUser(p)
        \/ RegionPreSaveValidate(p)
        \/ \E id \in RegionIds : deleteRegion(p, id)
        \/ deleteRegionFindUser(p)
        \/ deleteRegionSaveUser(p)
        \/ deleteRegionDeleteOne(p)
        \/ \E id \in RegionIds : getRegionById(p, id)
        \/ getRegionByIdFind(p)
        \/ Respond(p)

Spec == Init /\ [][Next]_vars

\* The connection manager on its own: calls of initialize and close, timers,
\* the settling of the driver's promises and the driver's events.
DbInit ==
    /\ ApiIdle
    /\ dbClass \in DatabaseClasses
    /\ DbIdle
    /\ UtilIdle
    /\ AuthIdle

DbNext ==
    \/ initializeCall
    \/ retryTimeoutFires
    \/ \E primary \in BOOLEAN : connectResolves(primary)
    \/ connectRejects
    \/ onDisconnected
    \/ onError
    \/ closeCall
    \/ closeResolves
    \/ mainSeed

DbSpec == DbInit /\ [][DbNext]_vars

\* ApiKeyService applied to every candidate key and every stored value.
ApiKeyInit ==
    /\ ApiIdle
    /\ dbClass = "part_002"
    /\ DbIdle
    /\ UtilIdle
    /\ authUsers = << >>
    /\ request = NoRequest
    /\ \E k \in CandidateKeys, h \in StoredHashes :
           call = [NoCall EXCEPT !.pc = "called", !.providedApiKey = k,
                                 !.storedHashedApiKey = h]

ApiKeyNext == verifyCall

ApiKeySpec == ApiKeyInit /\ [][ApiKeyNext]_vars

\* The authentication middleware in front of the routes, for every set of
\* stored users.
AuthInit ==
    /\ users = [i \in 1..NumAuthUsers |-> UserDoc("n", "A", <<1, 0>>)]
    /\ regions = EmptyCollection
    /\ userSeq = NumAuthUsers
    /\ regionSeq = 0
    /\ proc = [p \in Procs |-> Idle]
    /\ ops = 0
    /\ deletedOk = {}
    /\ dbClass = "part_002"
    /\ DbIdle
    /\ UtilIdle
    /\ call = NoCall
    /\ request = NoRequest
    /\ \E h \in [1..NumAuthUsers -> AuthUserHashes] :
           authUsers = [i \in 1..NumAuthUsers |-> [id |-> i, apiKeyHash |-> h[i]]]

AuthNext ==
    \/ \E method \in Methods, url \in Urls, header \in ApiKeyHeaders :
           authMiddleware(method, url, header)
    \/ authMiddlewareFind
    \/ deleteUserRoute
    \/ \E body \in UpdateUserBodies : updateUserRoute(body)
    \/ \E i \in 1..NumAuthUsers, k \in {<<"0", "0">>, <<"a", "a">>} :
           regenerateApiKey(i, k)

AuthSpec == AuthInit /\ [][AuthNext]_vars

\* PaginationUtil.paginate applied to every page, limit and collection size.
PageInit ==
    /\ ApiIdle
    /\ dbClass = "part_002"
    /\ DbIdle
    /\ AuthIdle
    /\ geoCall = NoGeoCall
    /\ SeedIdle
    /\ \E page \in 1..MaxPage, limit \in 1..MaxLimit, total \in 0..MaxTotal :
           pageCall = [NoPageCall EXCEPT !.pc = "called", !.page = page,
                                         !.limit = limit, !.total = total]

PageNext == paginateCall

PageSpec == PageInit /\ [][PageNext]_vars

\* The GeoCoding client applied to every coordinate value, every address
\* and every list of candidates around every point.
GeoInit ==
    /\ ApiIdle
    /\ dbClass = "part_002"
    /\ DbIdle
    /\ AuthIdle
    /\ pageCall = NoPageCall
    /\ SeedIdle
    /\ \/ \E c \in CoordinateValues :
              geoCall = [NoGeoCall EXCEPT !.pc = "called",
                                          !.fn = "coerceCoordinates",
                                          !.coordinates = c]
       \/ \E address \in Queries :
              geoCall = [NoGeoCall EXCEPT !.pc = "called",
                                          !.fn = "getLocationFromAddress",
                                          !.address = address]
       \/ \E l \in CandidateLists, pt \in Points :
              geoCall = [NoGeoCall EXCEPT !.pc = "called",
                                          !.fn = "findNearestLocationMatch",
                                          !.results = Candidates(l),
                                          !.coordinates = LatLngLiteral(pt[1], pt[2])]

GeoNext ==
    \/ coerceCoordinatesCall
    \/ getLocationFromAddressCall
    \/ findNearestLocationMatchCall

GeoSpec == GeoInit /\ [][GeoNext]_vars

\* Two requests, each a POST /users/:userId/regions or a DELETE /regions/:id
\* of a region of the same user, started in either order and overlapping in
\* every way.
RaceUser == 1
RaceRegion == 1

RaceInit ==
    /\ users = (RaceUser :> [UserDoc("n", "A", <<1, 0>>)
                               EXCEPT !.regions = << RaceRegion >>, !.v = 1])
    /\ regions = (RaceRegion :> RegionDoc(RaceUser))
    /\ userSeq = 1
    /\ regionSeq = 1
    /\ proc = [p \in Procs |-> Idle]
    /\ ops = MaxOps - 2
    /\ deletedOk = {}
    /\ dbClass = "part_002"
    /\ DbIdle
    /\ AuthIdle
    /\ UtilIdle

RaceNext ==
    \E p \in Procs :
        \/ createRegion(p, RaceUser)
        \/ RegionPreSaveFind(p)
        \/ RegionPreSaveUser(p)
        \/ RegionPreSaveValidate(p)
        \/ deleteRegion(p, RaceRegion)
        \/ deleteRegionFindUser(p)
        \/ deleteRegionSaveUser(p)
        \/ deleteRegionDeleteOne(p)
        \/ Respond(p)

RaceSpec == RaceInit /\ [][RaceNext]_vars

\* The seeder's loop over the users it has created, with every number of
\* regions for each.
SeedInit ==
    /\ users = [i \in 1..SeedUserCount |-> UserDoc("n", "A", <<1, 0>>)]
    /\ regions = EmptyCollection
    /\ userSeq = SeedUserCount
    /\ regionSeq = 0
    /\ proc = [p \in Procs |-> Idle]
    /\ ops = 0
    /\ deletedOk = {}
    /\ dbClass = "part_002"
    /\ DbIdle
    /\ AuthIdle
    /\ UtilIdle

SeedNext ==
    \/ \E numRegions \in 0..MaxRegions - regionSeq : createRegionsForUser(numRegions)
    \/ \E p \in Procs :
           \/ seederRegionSave(p)
           \/ RegionPreSaveFind(p)
           \/ RegionPreSaveUser(p)
           \/ RegionPreSaveValidate(p)
           \/ Respond(p)
    \/ createRegionsForUserPush

SeedSpec == SeedInit /\ [][SeedNext]_vars

\* DatabaseSeeder.create for every maxRetries and every behaviour of the
\* connection. The event loop runs a timer that is due and the continuation
\* of a promise that has settled, and the driver settles serverStatus and
\* ping within its timeouts; nothing makes the connection connect.
CreateInit ==
    /\ ApiIdle
    /\ dbClass = "part_002"
    /\ DbIdle
    /\ AuthIdle
    /\ pageCall = NoPageCall
    /\ geoCall = NoGeoCall
    /\ seeder = NoSeeder
    /\ readyState \in ReadyStates
    /\ \E n \in 1..MaxSeederRetries :
           creation = [NoCreation EXCEPT !.pc = "called", !.maxRetries = n]

serverStatusReturns ==
    \E outcome \in {"writablePrimary", "not writablePrimary", "rejected"} :
        serverStatusSettles(outcome)

pingReturns == \E resolved \in BOOLEAN : pingSettles(resolved)

CreateNext ==
    \/ create
    \/ \E rs \in ReadyStates : connectionChanges(rs)
    \/ serverStatusReturns
    \/ pingReturns
    \/ retryDelayFires

CreateSpec ==
    /\ CreateInit
    /\ [][CreateNext]_vars
    /\ WF_vars(create)
    /\ WF_vars(serverStatusReturns)
    /\ WF_vars(pingReturns)
    /\ WF_vars(retryDelayFires)

TypeOK ==
    /\ userSeq \in Nat
    /\ regionSeq \in 0..MaxRegions
    /\ ops \in 0..MaxOps
    /\ DOMAIN users \subseteq 1..userSeq
    /\ DOMAIN regions \subseteq 1..regionSeq

-----------------------------------------------------------------------------
(* Properties *)

Range(list) == {list[i] : i \in DOMAIN list}

Arrives(p) == proc[p].pc = "idle" /\ proc'[p].pc # "idle"
Returns(p) == proc[p].pc # "done" /\ proc'[p].pc = "done"

RegionCreates == {"createRegion", "RegionModel.create"}
UserCreates == {"createUser", "createUserAdapter"}

\* no user lists the region id and no region document has it
NoTrace(rid) ==
    /\ rid \notin DOMAIN regions
    /\ \A u \in DOMAIN users : rid \notin Range(users[u].regions)

\* C1: when a region create has failed, no user's region list holds the id
\* of the region that was being created and no region document with that id
\* exists.
RegionCreateFailureLeavesNoTrace ==
    \A p \in Procs :
        (proc[p].pc = "done" /\ proc[p].op \in RegionCreates /\ proc[p].res # "OK")
            => NoTrace(proc[p].rid)

\* C2: in every state a region document exists if and only if its owner's
\* region list contains its id.
RegionExistsIffListed ==
    /\ \A u \in DOMAIN users : \A rid \in Range(users[u].regions) :
           rid \in DOMAIN regions /\ regions[rid].user = u
    /\ \A rid \in DOMAIN regions :
           /\ regions[rid].user \in DOMAIN users
           /\ rid \in Range(users[regions[rid].user].regions)

\* C3: when createRegion for user U returns successfully, the new region
\* document exists with owner U and, U being there, U's region list contains
\* the new region's id.
CreateRegionReturnsListed ==
    \A p \in Procs :
        (proc[p].pc = "done" /\ proc[p].op = "createRegion" /\ proc[p].res = "OK")
            => /\ proc[p].rid \in DOMAIN regions
               /\ regions[proc[p].rid].user = proc[p].uid
               /\ proc[p].uid \in DOMAIN users
                    => proc[p].rid \in Range(users[proc[p].uid].regions)

\* C3 witness: a createRegion has returned OK and its owner is there.
CreateRegionReturnedOk ==
    \E p \in Procs :
        /\ proc[p].pc = "done" /\ proc[p].op = "createRegion" /\ proc[p].res = "OK"
        /\ proc[p].uid \in DOMAIN users

\* C4: a region create that finds no user for its owner id fails with
\* NotFoundError, and leaves no region document and no entry in any user's
\* region list.
UnknownOwnerFailsNotFound ==
    \A p \in Procs :
        (proc[p].pc = "done" /\ proc[p].op \in RegionCreates
            /\ proc[p].cause = "user_not_found")
            => proc[p].res = "NotFoundError" /\ NoTrace(proc[p].rid)

\* C5: once deleteRegion for R has returned successfully, R's owner does not
\* list R, R's document does not exist, and a fetch of R ends in
\* NotFoundError.
DeletedRegionStaysGone ==
    \A rid \in deletedOk :
        /\ NoTrace(rid)
        /\ \A p \in Procs :
              (proc[p].pc = "done" /\ proc[p].op = "getRegionById" /\ proc[p].rid = rid)
                  => proc[p].res = "NotFoundError"

\* C5 witness: a region was created and deleted, its owner is still there,
\* and a fetch of it has been answered.
FetchedAfterDelete ==
    \E p \in Procs :
        /\ proc[p].pc = "done" /\ proc[p].op = "getRegionById"
        /\ proc[p].rid \in deletedOk
        /\ users # EmptyCollection

\* C6: when deleteUser has succeeded, no region document has the deleted
\* user as its owner.
DeletedUserLeavesNoRegions ==
    \A p \in Procs :
        (proc[p].pc = "done" /\ proc[p].op = "deleteUser" /\ proc[p].res = "OK")
            => \A rid \in DOMAIN regions : regions[rid].user # proc[p].uid

\* the formatted addresses the provider lists for the point [lng, lat]
ProviderAddressesAt(coordinates) ==
    {pl.formatted_address : pl \in Range(reverseGeocode(coordinates[2], coordinates[1]))}

\* the [lng, lat] points the provider lists for the address
ProviderPointsOf(address) ==
    {<<pl.lng, pl.lat>> : pl \in Range(geocode(address))}

\* C7: after a successful save of a user that modified coordinates, the
\* stored address is one the provider gives for the stored [lng, lat] point;
\* after one that modified only the address, the stored coordinates are the
\* provider's for the stored address.
SavedPairAgreesWithProvider ==
    \A p \in Procs :
        (proc[p].pc = "done" /\ proc[p].res = "OK"
            /\ proc[p].op \in UserCreates \cup {"updateUser"})
            => LET doc == users[proc[p].uid]
                   coordinatesModified ==
                       IF proc[p].op = "updateUser"
                       THEN IsSome(proc[p].loc.coordinates)
                       ELSE IsSome(proc[p].body.coordinates)
                   addressModified ==
                       IF proc[p].op = "updateUser"
                       THEN IsSome(proc[p].loc.address)
                       ELSE IsSome(proc[p].body.address)
               IN  IF coordinatesModified
                   THEN doc.address \in ProviderAddressesAt(doc.coordinates)
                   ELSE addressModified
                          => doc.coordinates \in ProviderPointsOf(doc.address)

\* C8: a user create or update whose geocoding lookup fails ends in a
\* BadRequestError and changes no user document.
GeocodingFailureIsBadRequest ==
    [][\A p \in Procs :
          (Returns(p) /\ proc'[p].cause = "geocoding")
              => proc'[p].res = "BadRequestError" /\ users' = users]_vars

\* C9: a user created from an address alone is stored and returned with
\* exactly that address.
CreatedAddressIsSupplied ==
    \A p \in Procs :
        (proc[p].pc = "done" /\ proc[p].op \in UserCreates /\ proc[p].res = "OK"
            /\ IsSome(proc[p].body.address))
            => /\ proc[p].loc.address = proc[p].body.address
               /\ users[proc[p].uid].address = Val(proc[p].body.address)

BothOrNeither(body) == IsSome(body.address) = IsSome(body.coordinates)

NameOnly(body) ==
    IsSome(body.name) /\ ~IsSome(body.address) /\ ~IsSome(body.coordinates)

\* C11: an update of an existing user that carries only a name succeeds,
\* fails in no geocoding lookup, and leaves the stored address and
\* coordinates as they were.
NameOnlyUpdateSucceeds ==
    [][\A p \in Procs :
          (Returns(p) /\ proc'[p].op = "updateUser" /\ NameOnly(proc'[p].body)
              /\ proc'[p].uid \in DOMAIN users /\ proc'[p].uid \in DOMAIN users')
              => /\ proc'[p].res = "OK"
                 /\ proc'[p].cause # "geocoding"
                 /\ users'[proc'[p].uid].address = users[proc'[p].uid].address
                 /\ users'[proc'[p].uid].coordinates
                        = users[proc'[p].uid].coordinates]_vars

\* the step is a call of initialize, by a caller or by the retry timer
InitializeRuns == dbLast'.op \in {"initialize", "retryTimeout"}

FailureRetriesConnecting ==
    [][/\ (Supervises /\ dbLast'.op = "failed")
            => state'.status = "error" /\ timerPending'
       /\ (dbLast'.op = "retryTimeout" /\ state.status = "error")
            => state'.status = "connecting" /\ connects' = connects + 1]_vars

StatusEdges ==
    { <<"disconnected", "connecting">>, <<"connecting", "connected">>,
      <<"connecting", "error">>, <<"connected", "disconnected">>,
      <<"error", "connecting">> }

\* C14: the status changes only from disconnected to connecting, from
\* connecting to connected or to error, from connected to disconnected and
\* from error to connecting.
StatusFollowsEdges ==
    [][state'.status # state.status
          => <<state.status, state'.status>> \in StatusEdges]_vars

\* C15: the delay of every scheduled reconnect is
\* min(initialDelay * factor^retryCount, maxDelay); a fired retry adds one to
\* retryCount, which goes back to 0 on reaching maxRetries and stays within
\* 0..maxRetries; in status error a retry is always pending, unless a close
\* is under way.
BackoffDelayAndCount ==
    [][/\ state'.retryCount \in 0..maxRetries
       /\ dbLast'.scheduled
            => /\ timerPending'
               /\ state'.retryTimeout
                    = Some(Min(initialDelay * Pow(factor, state'.retryCount),
                               maxDelay))
       /\ dbLast'.op = "retryTimeout"
            => \/ state'.retryCount = state.retryCount + 1
               \/ state.retryCount + 1 = maxRetries /\ state'.retryCount = 0
       /\ (state'.status = "error" /\ closes' = 0) => timerPending']_vars

\* C15 witness: the retry after which the count went back to 0 has been
\* scheduled with the first delay.
RetryCountWrapped ==
    /\ dbLast = Step("retryTimeout", TRUE, "none")
    /\ state.retryCount = 0
    /\ state.retryTimeout = Some(initialDelay)

\* C16: a close without a connection returns without an error and leaves the
\* status disconnected, and a close right after a close that has returned
\* changes nothing.
CloseIsIdempotent ==
    [][dbLast'.op = "close"
          => /\ state.connection = "null"
                  => /\ dbLast'.ret = "undefined"
                     /\ state'.status = "disconnected"
             /\ (dbLast.op \in {"close", "closed"} /\ dbLast.ret = "undefined")
                  => /\ state' = state
                     /\ timerPending' = timerPending
                     /\ closes' = closes]_vars

\* C17: the seeding script issues its writes only to a node that is the
\* primary.
SeedsOnlyPrimary == seeding = "issued" => ismaster

\* C18: verify never throws; for every candidate and every stored value it
\* returns a boolean, which is false when the stored value is not the hash
\* of the candidate.
VerifyNeverThrows ==
    call.pc = "returned"
        => /\ ~call.threw
           /\ call.storedHashedApiKey # hash(call.providedApiKey) => ~call.value

\* the stored value is the hash of a key
StoredIsHashOfKey == \E k \in GeneratedKeys : call.storedHashedApiKey = hash(k)

\* C19: against the hash of a key k, verify is true for k and false for
\* every other string, and the hash of a string is never that string.
VerifyAcceptsExactlyTheKey ==
    call.pc = "returned"
        => /\ call.hashed # call.providedApiKey
           /\ StoredIsHashOfKey
                => /\ ~call.threw
                   /\ call.value
                        = (call.storedHashedApiKey = hash(call.providedApiKey))
                   /\ \A k \in GeneratedKeys :
                        call.storedHashedApiKey = hash(k)
                            => (call.value = (call.providedApiKey = k))

\* C19 witness: verify has accepted a key against its own hash.
VerifiedOwnHash ==
    /\ call.pc = "returned"
    /\ call.providedApiKey \in GeneratedKeys
    /\ call.storedHashedApiKey = call.hashed
    /\ call.value

\* the x-api-key header carries a key
HasKey(r) == IsSome(r.apiKey) /\ Val(r.apiKey) # << >>

\* the users whose stored hash the request's key verifies against
Verifying(r) ==
    IF ~HasKey(r) THEN {}
    ELSE {i \in DOMAIN authUsers :
             LET v == verify(Val(r.apiKey), authUsers[i].apiKeyHash)
             IN  ~v.threw /\ v.value}

UnauthenticatedUserWriteRejected ==
    [][/\ (request' # request /\ request'.pc = "done" /\ ~request'.routed
           /\ request'.url = UserUrl /\ request'.method \in {"PUT", "DELETE"}
           /\ Verifying(request') = {})
          => (request'.statusCode = 401 /\ ~request'.handled)
       /\ users' # users => request.user # 0]_vars

\* the offsets of the page that the collection has
PageOffsets(c) ==
    {o \in (c.page - 1) * c.limit .. (c.page - 1) * c.limit + c.limit - 1 :
        o < c.total}

\* C22: paginate returns as data the documents at the offsets
\* (page-1)*limit .. (page-1)*limit+limit-1 that exist, in their order (none
\* when the page is past the last one), and as meta the page, the limit, the
\* total, totalPages the least number of pages of limit items that hold the
\* total, hasNextPage = page < totalPages and hasPreviousPage = page > 1.
PaginateReturnsThePage ==
    pageCall.pc = "returned"
        => LET c == pageCall
               data == c.result.data
               meta == c.result.meta
           IN  /\ Len(data) = Cardinality(PageOffsets(c))
               /\ \A k \in 1..Len(data) :
                      data[k] = Matching(c.total)[(c.page - 1) * c.limit + k]
               /\ meta.currentPage = c.page
               /\ meta.itemsPerPage = c.limit
               /\ meta.totalItems = c.total
               /\ meta.totalPages * c.limit >= c.total
               /\ (meta.totalPages - 1) * c.limit < c.total
               /\ meta.hasNextPage = (c.page < meta.totalPages)
               /\ meta.hasPreviousPage = (c.page > 1)

\* C22 witness: a page past the last one of a collection that has documents
\* came back empty
PagePastTheLast ==
    /\ pageCall.pc = "returned"
    /\ pageCall.total > 0
    /\ pageCall.page > pageCall.result.meta.totalPages
    /\ pageCall.result.data = << >>

\* the value is one of the four shapes of the point (lat, lng)
ShapeOf(c, lat, lng) ==
    \/ c = LatLngArray(lng, lat)
    \/ c = LatLngString(Str(lat) \o <<",">> \o Str(lng))
    \/ c = LatLngLiteral(lat, lng)
    \/ c = LatLngLiteralVerbose(lat, lng)

\* C23: when the provider has candidates for an address, the forward lookup
\* returns one of them: the first whose formatted address equals the query
\* when there is one, and a candidate still when there is none.
ForwardLookupReturnsACandidate ==
    (geoCall.pc = "returned" /\ geoCall.fn = "getLocationFromAddress"
       /\ geoCall.results # << >>)
        => LET exact == SelectSeq(geoCall.results,
                          LAMBDA pl : pl.formatted_address = geoCall.address)
           IN  /\ geoCall.match.ok
               /\ \E i \in DOMAIN geoCall.results :
                      GeoOk(geoCall.results[i]) = geoCall.match
               /\ exact # << >> => geoCall.match = GeoOk(Head(exact))

\* C24: each of the four shapes of a point (the tuple [lng, lat], the
\* string "lat,lng", {lat, lng} and {latitude, longitude}) is normalized to
\* the point's latitude and longitude, and every other value fails.
CoerceNormalizesTheFourShapes ==
    (geoCall.pc = "returned" /\ geoCall.fn = "coerceCoordinates")
        => LET c == geoCall.coordinates
               r == geoCall.coerced
           IN  /\ \A pt \in Points :
                      ShapeOf(c, pt[1], pt[2])
                          => r = Coerced(pt[1], pt[2], {})
               /\ (\A pt \in Points : ~ShapeOf(c, pt[1], pt[2])) => r.threw

\* C25: a reverse lookup none of whose candidates lies at the queried point
\* returns a candidate at the smallest distance |lat difference| +
\* |lng difference| from it.
ReverseLookupReturnsNearest ==
    (geoCall.pc = "returned" /\ geoCall.fn = "findNearestLocationMatch"
       /\ geoCall.results # << >>
       /\ \A i \in DOMAIN geoCall.results :
              <<geoCall.results[i].lat, geoCall.results[i].lng>>
                  # <<geoCall.coordinates.lat, geoCall.coordinates.lng>>)
        => LET d(pl) == Abs(pl.lat - geoCall.coordinates.lat)
                          + Abs(pl.lng - geoCall.coordinates.lng)
           IN  /\ geoCall.match.ok
               /\ \E i \in DOMAIN geoCall.results :
                      GeoOk(geoCall.results[i]) = geoCall.match
               /\ \A i \in DOMAIN geoCall.results :
                      d(geoCall.match) <= d(geoCall.results[i])

\* close() was called in the given status, it has returned, and initialize()
\* has not been called since
ClosedFrom(status) == Supervises /\ closedFrom = status /\ closes = 0

\* C26: once a close() of a connected manager has returned, and until
\* initialize() is called again, no reconnect timer is pending, no
\* connection attempt is in flight and the status is disconnected.
ClosedStaysClosed ==
    ClosedFrom("connected")
        => /\ ~timerPending
           /\ connects = 0
           /\ state.status = "disconnected"

\* C28: when close() was called during a connection attempt of initialize()
\* and the later of the two completes, the status is disconnected and the
\* manager holds no connection.
CloseDuringConnectWins ==
    [][(/\ closedFrom = "connecting"
        /\ closedFrom' = "connecting"
        /\ Supervises
        /\ dbLast'.op \in {"connected", "failed", "closed"}
        /\ connects' = 0
        /\ closes' = 0)
          => /\ state'.status = "disconnected"
             /\ state'.connection = "null"
             /\ ~up']_vars

\* the two requests were a create and a delete, and both have been answered
BothCompleted ==
    /\ ops = MaxOps
    /\ regionSeq = RaceRegion + 1
    /\ \A p \in Procs : proc[p].pc = "idle"

\* C27: after a region create and a region delete of the same owner have
\* both completed, however their steps interleaved, the owner's list holds
\* the created region's id and not the deleted region's id.
CreateAndDeleteBothTakeEffect ==
    BothCompleted
        => /\ RaceRegion + 1 \in Range(users[RaceUser].regions)
           /\ RaceRegion \notin Range(users[RaceUser].regions)

\* how many times id occurs in list
Occurrences(list, id) == Cardinality({i \in DOMAIN list : list[i] = id})

\* C29: when the seeder has created the regions of a user, the user's list
\* holds the id of each of them exactly once.
SeededRegionsListedOnce ==
    seeder.pc = "done"
        => \A id \in seeder.createdRegions :
               Occurrences(users[seeder.user].regions, id) = 1

\* create has returned a seeder or thrown
CreateFinished == creation.pc \in {"returned", "threw"}

\* C30: DatabaseSeeder.create makes at most maxRetries attempts and
\* finishes: it returns a seeder after an attempt that found a writable
\* primary, or throws "Could not establish writable connection to MongoDB
\* primary" when the maxRetries-th attempt has failed.
CreateFinishesWithinMaxRetries ==
    /\ [](/\ creation.attempts <= creation.maxRetries
          /\ creation.pc = "returned"
                => /\ creation.status = "writablePrimary"
                   /\ creation.attempts < creation.maxRetries
          /\ creation.pc = "threw"
                => /\ creation.attempts = creation.maxRetries
                   /\ creation.message =
                          "Could not establish writable connection to MongoDB primary")
    /\ <>CreateFinished

====
